---- MODULE Spec2Model ----
(***************************************************************************)
(* Crawl dispatch and ingestion of amitmeel/llm_twin.                      *)
(*                                                                         *)
(* Strings that the code inspects character by character (URLs, hosts,     *)
(* registry patterns) are sequences of one-character strings, so that      *)
(* urlparse(...).netloc and re.match are computed, not assumed.            *)
(*                                                                         *)
(* Six specifications share the module:                                    *)
(*   SpecDispatch  CrawlerDispatcher.register / get_crawler on its own;    *)
(*   Spec          ingestion runs (crawl_links) executed one after another;*)
(*   SpecConc      two ingestion runs interleaved at store operations;     *)
(*   SpecExtract   single extract calls, with the working directory, the   *)
(*                 scratch directories and the browser session they hold;  *)
(*   SpecUsers     the step get_or_create_user, run again and again;       *)
(*   SpecHelpers   the tree walk of GithubCrawler and scroll_page, each    *)
(*                 applied once to every input of its pool.                *)
(***************************************************************************)
EXTENDS Integers, Sequences, FiniteSets, TLC

VARIABLES
    crawlers,            \* CrawlerDispatcher._crawlers: ordered dict pattern -> class
    regLog,              \* history: the register(domain, crawler) calls, in order
    resolved,            \* history: the last get_crawler(url) call since the last
                         \* register, and its result
    database,            \* _database: collection name -> set of stored documents
    nextId,              \* source of uuid.uuid4(): every draw is fresh
    pc,                  \* per run: position in crawl_links
    links,               \* per run: the links argument
    user,                \* per run: the user argument
    idx,                 \* per run: 1-based position of the for loop
    crawler,             \* per run: the strategy instance held by _crawl_link
    metadata,            \* per run: the metadata dict of crawl_links
    successfull_crawls,  \* per run: the success counter of crawl_links
    outcome,             \* history, per run: what happened to each processed link
    published,           \* per run: metadata handed to add_output_metadata
    returned,            \* per run: the list crawl_links returned
    instance,            \* the strategy instance built for one extract call
    cwd,                 \* os.getcwd() of the process
    tmpdirs,             \* the directories made by tempfile.mkdtemp() that exist
    call,                \* history: the last extract(link, user=user) call
    userCall,            \* history: the last get_or_create_user(name) call
    fnCall               \* history: the last call of a helper and its result

dispatchVars == <<crawlers, regLog, resolved>>
storeVars == <<database, nextId>>
runVars == <<pc, links, user, idx, crawler, metadata, successfull_crawls,
             outcome, published, returned>>
resourceVars == <<instance, cwd, tmpdirs, call>>
auxVars == <<instance, cwd, tmpdirs, call, userCall, fnCall>>
vars == <<crawlers, regLog, resolved, database, nextId, pc, links, user, idx,
          crawler, metadata, successfull_crawls, outcome, published, returned,
          instance, cwd, tmpdirs, call, userCall, fnCall>>

\* An optional value is a set: None is empty, Some(x) holds x alone.
None == {}
Some(x) == {x}
the(s) == CHOOSE x \in s : TRUE

----------------------------------------------------------------------------
(* Bounds *)

MaxRegs == 3     \* register calls per dispatcher in SpecDispatch
MaxLinks == 2    \* links per batch
MaxDocs == 3     \* documents ever inserted

----------------------------------------------------------------------------
(* Character-level strings *)

Alpha == {"a","b","c","d","e","f","g","h","i","j","k","l","m",
          "n","o","p","q","r","s","t","u","v","w","x","y","z"}
Digits == {"0","1","2","3","4","5","6","7","8","9"}
SchemeChars == Alpha \cup Digits \cup {"+", "-", "."}

Min(S) == CHOOSE x \in S : \A y \in S : x <= y

StartsWith(s, p) == Len(s) >= Len(p) /\ SubSeq(s, 1, Len(p)) = p

\* str.find restricted to a set of characters, from position `from`; 0 = absent
FindAny(s, cs, from) ==
    LET I == {i \in from..Len(s) : s[i] \in cs}
    IN  IF I = {} THEN 0 ELSE Min(I)

HTTPS == <<"h","t","t","p","s",":","/","/">>
HTTP == <<"h","t","t","p",":","/","/">>
WWW == <<"w","w","w",".">>
MEDIUM == <<"m","e","d","i","u","m",".","c","o","m">>
GITHUB == <<"g","i","t","h","u","b",".","c","o","m">>
LINKEDIN == <<"l","i","n","k","e","d","i","n",".","c","o","m">>
BLOG == <<"a",".","i","o">>

\* urlparse(url).netloc: an optional scheme up to the first ":", then, after
\* "//", everything up to the first "/", "?" or "#".
netloc(url) ==
    LET i == FindAny(url, {":"}, 1)
        hasScheme == /\ i > 1
                     /\ url[1] \in Alpha
                     /\ \A k \in 1..(i - 1) : url[k] \in SchemeChars
        rest == IF hasScheme THEN SubSeq(url, i + 1, Len(url)) ELSE url
    IN  IF StartsWith(rest, <<"/","/">>)
        THEN LET d == FindAny(rest, {"/","?","#"}, 3)
             IN  SubSeq(rest, 3, IF d = 0 THEN Len(rest) ELSE d - 1)
        ELSE <<>>

----------------------------------------------------------------------------
(* CrawlerDispatcher *)

CustomArticleCrawler == "CustomArticleCrawler"
MediumCrawler == "MediumCrawler"
GithubCrawler == "GithubCrawler"
LinkedInCrawler == "LinkedInCrawler"

\* A key anchored at the http scheme.
pattern_http(domain) ==
    [prefix |-> HTTP, optional |-> WWW, literal |-> domain, slashes |-> "*"]

\* The key register stores: r"https://(www\.)?{}/*".format(re.escape(domain)).
\* re.escape makes the domain a literal; the record keeps the regex's parts.
pattern(domain) ==
    [prefix |-> HTTPS, optional |-> WWW, literal |-> domain, slashes |-> "*"]

\* re.match(pattern, url): a match anchored at the start of url only. The
\* optional group is tried present, then absent; "/*" matches zero slashes.
re_match(p, url) ==
    \/ StartsWith(url, p.prefix \o p.optional \o p.literal)
    \/ StartsWith(url, p.prefix \o p.literal)

\* dict.__setitem__ on an insertion-ordered dict: an existing key keeps its
\* position and takes the new value, a new key goes last.
dict_set(d, key, value) ==
    IF \E i \in 1..Len(d) : d[i].pattern = key
    THEN [i \in 1..Len(d) |->
            IF d[i].pattern = key THEN [pattern |-> key, crawler |-> value]
            ELSE d[i]]
    ELSE Append(d, [pattern |-> key, crawler |-> value])

\* A registration that always appends, keeping a stale binding in front.
register_append(d, domain, cls) ==
    Append(d, [pattern |-> pattern(netloc(domain)), crawler |-> cls])

register(d, domain, cls) ==
    dict_set(d, pattern(netloc(domain)), cls)

\* The class get_crawler instantiates: the first binding, in dict order,
\* whose pattern matches; CustomArticleCrawler when none does.
get_crawler(d, url) ==
    LET M == {i \in 1..Len(d) : re_match(d[i].pattern, url)}
    IN  IF M = {} THEN CustomArticleCrawler ELSE d[Min(M)].crawler

\* History views of the register calls, independent of the dict's layout.
RegisteredDomains == {regLog[i].domain : i \in 1..Len(regLog)}
CallsFor(h) == {i \in 1..Len(regLog) : regLog[i].domain = h}
FirstCall(h) == Min(CallsFor(h))
LastCall(h) == CHOOSE i \in CallsFor(h) : \A j \in CallsFor(h) : j <= i
LastFor(h) == regLog[LastCall(h)].crawler

strip_www(h) == IF StartsWith(h, WWW) THEN SubSeq(h, Len(WWW) + 1, Len(h)) ELSE h

\* Classes whose __init__ is BaseSeleniumCrawler.__init__: it configures and
\* starts a Chrome session and can raise.
SeleniumCrawlers == {MediumCrawler}

\* crawler(): FALSE when the constructor raises.
instantiate(cls, driverStarts) == cls \notin SeleniumCrawlers \/ driverStarts

RegDomains == {HTTPS \o MEDIUM, HTTPS \o GITHUB, HTTPS \o WWW \o MEDIUM}
RegClasses == {MediumCrawler, GithubCrawler}

Path == <<"/","p">>
UrlPool == {HTTPS \o MEDIUM \o Path,
            HTTPS \o WWW \o MEDIUM \o Path,
            HTTPS \o MEDIUM,
            HTTP \o MEDIUM \o Path,
            HTTPS \o MEDIUM \o <<".","e","x",".","o","r","g">> \o Path,
            HTTPS \o GITHUB \o Path,
            HTTPS \o BLOG \o Path}

\* dispatcher.register(domain, crawler)
Register(domain, cls) ==
    /\ Len(regLog) < MaxRegs
    /\ crawlers' = register(crawlers, domain, cls)
    /\ regLog' = Append(regLog, [domain |-> netloc(domain), crawler |-> cls])
    /\ resolved' = None
    /\ UNCHANGED <<storeVars, runVars, auxVars>>

\* dispatcher.get_crawler(url)
GetCrawler(url, driverStarts) ==
    /\ LET cls == get_crawler(crawlers, url)
       IN  resolved' = Some([url |-> url, crawler |-> cls,
                             raised |-> ~instantiate(cls, driverStarts)])
    /\ UNCHANGED <<crawlers, regLog, storeVars, runVars, auxVars>>

----------------------------------------------------------------------------
(* Documents and the store *)

Users == {[id |-> "user-1", first_name |-> "Ada", last_name |-> "Lovelace"],
          [id |-> "user-2", first_name |-> "Grace", last_name |-> "Hopper"]}

\* UserDocument.full_name: f"{first_name} {last_name}"
full_name(u) == <<u.first_name, " ", u.last_name>>

Collections == {"articles", "repositories"}

\* The collection of the crawler's model: Settings.name of its document class
model(cls) == IF cls = GithubCrawler THEN "repositories" ELSE "articles"

\* model.find(link=link): the stored document with that link, or None
find(db, coll, link) ==
    IF \E doc \in db[coll] : doc.link = link
    THEN Some(CHOOSE doc \in db[coll] : doc.link = link)
    ELSE None

\* NoSQLBaseDocument.save: insert_one; a WriteError is logged and swallowed,
\* and save returns None instead of the document.
save(db, coll, doc, writeError) ==
    IF writeError
    THEN [database |-> db, result |-> None]
    ELSE [database |-> [db EXCEPT ![coll] = @ \cup {doc}], result |-> Some(doc)]

\* link.rstrip("/").split("/")[-1]
repo_name(link) ==
    LET keep == {i \in 1..Len(link) : link[i] # "/"}
        stripped == IF keep = {} THEN <<>>
                    ELSE SubSeq(link, 1, CHOOSE i \in keep : \A j \in keep : j <= i)
        cut == {i \in 1..Len(stripped) : stripped[i] = "/"}
        from == IF cut = {} THEN 1
                ELSE (CHOOSE i \in cut : \A j \in cut : j <= i) + 1
    IN  SubSeq(stripped, from, Len(stripped))

\* The document each strategy constructs before instance.save()
new_document(cls, link, usr, id, content) ==
    IF cls = GithubCrawler
    THEN [id |-> id, content |-> content, name |-> repo_name(link), link |-> link,
          platform |-> <<"g","i","t","h","u","b">>, author_id |-> usr.id,
          author_full_name |-> full_name(usr)]
    ELSE [id |-> id, content |-> content, link |-> link,
          platform |-> IF cls = MediumCrawler THEN <<"m","e","d","i","u","m">>
                       ELSE netloc(link),
          author_id |-> usr.id, author_full_name |-> full_name(usr)]

\* extract, first part: the existence check and its early return.
\* An extract that never returns early.
extract_check_never(cls, db, link) == [returns |-> FALSE, raises |-> FALSE]

\* An extract that signals the existing document with an exception.
extract_check_raising(cls, db, link) ==
    IF find(db, model(cls), link) # None
    THEN [returns |-> FALSE, raises |-> TRUE]
    ELSE [returns |-> FALSE, raises |-> FALSE]

extract_check(cls, db, link) ==
    IF find(db, model(cls), link) # None
    THEN [returns |-> TRUE, raises |-> FALSE]
    ELSE [returns |-> FALSE, raises |-> FALSE]

\* extract, second part: fetch and normalise (either can raise, as can the
\* clone of a repository or an insert that fails with anything but a
\* WriteError: fault "fetch_failed"), then build the document and save it;
\* the value of save() is not looked at.
\* An extract that stores the document first and fills it in afterwards.
extract_persist_eager(cls, db, link, usr, id, fault, content) ==
    [database |-> save(db, model(cls),
                       new_document(cls, link, usr, id, content),
                       fault = "write_error").database,
     raises |-> fault = "fetch_failed"]

extract_persist(cls, db, link, usr, id, fault, content) ==
    IF fault = "fetch_failed"
    THEN [database |-> db, raises |-> TRUE]
    ELSE [database |-> save(db, model(cls),
                            new_document(cls, link, usr, id, content),
                            fault = "write_error").database,
          raises |-> FALSE]

----------------------------------------------------------------------------
(* One extract call and the resources it holds *)

OriginalCwd == <<"app">>

\* tempfile.mkdtemp(): a directory that did not exist
mkdtemp(tmps) == <<"tmp", Cardinality(tmps) + 1>>

\* Where an extract can fail once it is past the existence check. Articles:
\* the page load ("fetch_failed"), then scrolling, parsing or transforming
\* ("parse_failed"). Repositories: git clone ("clone_failed"), then reading
\* the files ("read_failed"). All: an insert that raises anything but a
\* WriteError ("insert_failed"), or a WriteError that save() swallows.
BeforeSave == {"fetch_failed", "parse_failed", "clone_failed", "read_failed"}
FaultsOf(cls) ==
    IF cls = GithubCrawler
    THEN {"none", "clone_failed", "read_failed", "insert_failed", "write_error"}
    ELSE {"none", "fetch_failed", "parse_failed", "insert_failed", "write_error"}

\* The fault as extract_persist tells it: every fault that leaves extract
\* with an exception is its "fetch_failed"
raising(fault) ==
    IF fault \in BeforeSave \cup {"insert_failed"} THEN "fetch_failed" ELSE fault

\* A GithubCrawler.extract that cleans up only when nothing was raised.
github_workspace_no_finally(fault, dir, tmps) ==
    LET local_temp == mkdtemp(tmps)
    IN  IF raising(fault) = "fetch_failed"
        THEN [cwd |-> local_temp, tmpdirs |-> tmps \cup {local_temp},
              workspace |-> Some(local_temp)]
        ELSE [cwd |-> dir, tmpdirs |-> tmps, workspace |-> Some(local_temp)]

\* GithubCrawler.extract, lines 46-81: mkdtemp and getcwd, then the try block
\* entered with os.chdir(local_temp) and left at the fault or after save(),
\* then the finally block: os.chdir(original_cwd), shutil.rmtree(local_temp).
github_workspace(fault, dir, tmps) ==
    LET local_temp == mkdtemp(tmps)
        original_cwd == dir
        tried == [cwd |-> local_temp, tmpdirs |-> tmps \cup {local_temp}]
    IN  [cwd |-> original_cwd, tmpdirs |-> tried.tmpdirs \ {local_temp},
         workspace |-> Some(local_temp)]

\* MediumCrawler.extract, line 62: self.driver.close() comes after the page
\* is parsed and before the document is built and saved.
driver_close(driver, fault) ==
    IF fault \in BeforeSave THEN driver ELSE "closed"

\* BaseSeleniumCrawler.__init__ starts the browser; other strategies have none
new_crawler(cls) ==
    [cls |-> cls, driver |-> IF cls \in SeleniumCrawlers THEN "open" ELSE "none"]

\* crawler.extract(link=link, user=user), from the existence check to the
\* return or the exception
extract(inst, db, link, usr, id, fault, content, dir, tmps) ==
    LET c == extract_check(inst.cls, db, link)
        fetched == ~c.returns /\ ~c.raises
        p == IF fetched
             THEN extract_persist(inst.cls, db, link, usr, id, raising(fault),
                                  content)
             ELSE [database |-> db, raises |-> c.raises]
        ws == IF fetched /\ inst.cls = GithubCrawler
              THEN github_workspace(fault, dir, tmps)
              ELSE [cwd |-> dir, tmpdirs |-> tmps, workspace |-> None]
    IN  [database |-> p.database, raises |-> p.raises, existed |-> c.returns,
         fetched |-> fetched, cwd |-> ws.cwd, tmpdirs |-> ws.tmpdirs,
         workspace |-> ws.workspace,
         driver |-> IF fetched /\ inst.cls \in SeleniumCrawlers
                    THEN driver_close(inst.driver, fault)
                    ELSE inst.driver]

----------------------------------------------------------------------------
(* Users: split_user_full_name and get_or_create *)

\* The characters str.strip() removes
Whitespace == {" ", "\t"}

\* str.strip()
strip(s) ==
    LET keep == {i \in 1..Len(s) : s[i] \notin Whitespace}
    IN  IF keep = {} THEN <<>>
        ELSE SubSeq(s, CHOOSE i \in keep : \A j \in keep : i <= j,
                       CHOOSE i \in keep : \A j \in keep : j <= i)

\* The pieces of s between the characters of seps, empty pieces included:
\* str.split(" ") is split_on(s, {" "})
split_on(s, seps) ==
    LET RECURSIVE Pieces(_, _)
        Pieces(i, piece) ==
            IF i > Len(s) THEN <<piece>>
            ELSE IF s[i] \in seps THEN <<piece>> \o Pieces(i + 1, <<>>)
            ELSE Pieces(i + 1, Append(piece, s[i]))
    IN  Pieces(1, <<>>)

\* sep.join(tokens)
join(sep, tokens) ==
    LET RECURSIVE Joined(_)
        Joined(i) == IF i > Len(tokens) THEN <<>>
                     ELSE IF i = 1 THEN tokens[1] \o Joined(2)
                     ELSE sep \o tokens[i] \o Joined(i + 1)
    IN  Joined(1)

\* A split_user_full_name that accepts every string.
split_user_full_name_unchecked(name) ==
    IF name = None
    THEN [raises |-> TRUE, first_name |-> <<>>, last_name |-> <<>>]
    ELSE LET name_tokens == split_on(the(name), {" "})
         IN  IF Len(name_tokens) = 1
             THEN [raises |-> FALSE, first_name |-> name_tokens[1],
                   last_name |-> name_tokens[1]]
             ELSE [raises |-> FALSE,
                   first_name |-> join(<<" ">>,
                       SubSeq(name_tokens, 1, Len(name_tokens) - 1)),
                   last_name |-> name_tokens[Len(name_tokens)]]

\* split_user_full_name(user); user is None or a string
split_user_full_name(name) ==
    IF name = None \/ the(name) = <<>> \/ strip(the(name)) = <<>>
    THEN [raises |-> TRUE, first_name |-> <<>>, last_name |-> <<>>]
    ELSE LET name_tokens == split_on(the(name), {" "})
         IN  IF Len(name_tokens) = 0
             THEN [raises |-> TRUE, first_name |-> <<>>, last_name |-> <<>>]
             ELSE IF Len(name_tokens) = 1
             THEN [raises |-> FALSE, first_name |-> name_tokens[1],
                   last_name |-> name_tokens[1]]
             ELSE [raises |-> FALSE,
                   first_name |-> join(<<" ">>,
                       SubSeq(name_tokens, 1, Len(name_tokens) - 1)),
                   last_name |-> name_tokens[Len(name_tokens)]]

\* str(uuid) and the UUID4 that pydantic parses from it
uuid_str(id) == <<"uuid", id>>
UUID4(str) == str[2]

\* UserDocument(first_name=..., last_name=...): id from the default factory
UserDocument(id, first_name, last_name) ==
    [id |-> id, first_name |-> first_name, last_name |-> last_name]

\* to_mongo: "id" becomes "_id", as a string
to_mongo(doc) ==
    [_id |-> uuid_str(doc.id), first_name |-> doc.first_name,
     last_name |-> doc.last_name]

\* from_mongo: "_id" becomes "id" again, validated as a UUID4
from_mongo(data) ==
    UserDocument(UUID4(data._id), data.first_name, data.last_name)

\* collections.find_one(filter_options)
find_one(coll, first_name, last_name) ==
    LET hits == {d \in coll : d.first_name = first_name /\ d.last_name = last_name}
    IN  IF hits = {} THEN None ELSE Some(CHOOSE d \in hits : TRUE)

\* A get_or_create that never looks the document up.
get_or_create_always(db, first_name, last_name, id, writeError) ==
    LET new_instance == UserDocument(id, first_name, last_name)
        saved == save(db, "users", to_mongo(new_instance), writeError)
    IN  [database |-> saved.database,
         result |-> IF saved.result = None THEN None ELSE Some(new_instance),
         created |-> TRUE]

\* UserDocument.get_or_create(first_name=..., last_name=...)
get_or_create(db, first_name, last_name, id, writeError) ==
    LET instance_ == find_one(db["users"], first_name, last_name)
        new_instance == UserDocument(id, first_name, last_name)
        saved == save(db, "users", to_mongo(new_instance), writeError)
    IN  IF instance_ # None
        THEN [database |-> db, result |-> Some(from_mongo(the(instance_))),
              created |-> FALSE]
        ELSE [database |-> saved.database,
              result |-> IF saved.result = None THEN None ELSE Some(new_instance),
              created |-> TRUE]

\* The step get_or_create_user(user_full_name): split, get_or_create, then
\* _get_metadata, which reads user.id and so raises when save() returned None
get_or_create_user(db, name, id, writeError) ==
    LET n == split_user_full_name(name)
        g == get_or_create(db, n.first_name, n.last_name, id, writeError)
    IN  IF n.raises
        THEN [database |-> db, error |-> "ImproperlyConfigured", user |-> None,
              accessed |-> FALSE, created |-> FALSE,
              first_name |-> n.first_name, last_name |-> n.last_name]
        ELSE [database |-> g.database,
              error |-> IF g.result = None THEN "AttributeError" ELSE "none",
              user |-> g.result, accessed |-> TRUE, created |-> g.created,
              first_name |-> n.first_name, last_name |-> n.last_name]

----------------------------------------------------------------------------
(* GithubCrawler: the content mapping of a cloned tree *)

\* The default of GithubCrawler.__init__(ignore=...)
ignore == {<<".","g","i","t">>, <<".","t","o","m","l">>,
           <<".","l","o","c","k">>, <<".","p","n","g">>}

\* str.startswith(tuple) and str.endswith(tuple)
startswith(s, prefixes) == \E q \in prefixes : StartsWith(s, q)
endswith(s, suffixes) ==
    \E q \in suffixes :
        Len(s) >= Len(q) /\ SubSeq(s, Len(s) - Len(q) + 1, Len(s)) = q

\* str.replace(old, ""), old not empty: every occurrence, left to right
remove_all(s, old) ==
    LET RECURSIVE Scan(_)
        Scan(i) ==
            IF i > Len(s) THEN <<>>
            ELSE IF i + Len(old) - 1 <= Len(s)
                    /\ SubSeq(s, i, i + Len(old) - 1) = old
                 THEN Scan(i + Len(old))
                 ELSE <<s[i]>> \o Scan(i + 1)
    IN  Scan(1)

\* str.lstrip("/")
lstrip_slash(s) ==
    LET keep == {i \in 1..Len(s) : s[i] # "/"}
    IN  IF keep = {} THEN <<>> ELSE SubSeq(s, Min(keep), Len(s))

\* os.path.join(a, b) for a relative b
path_join(a, b) ==
    IF a = <<>> THEN b
    ELSE IF a[Len(a)] = "/" THEN a \o b
    ELSE a \o <<"/">> \o b

\* os.path.join(local_temp, repo_name)
repo_path == <<"/","t","/","r">>

\* The root os.walk reports for a directory of the clone
walk_root(dir) == IF dir = <<>> THEN repo_path ELSE path_join(repo_path, dir)

\* GithubCrawler.extract, lines 55-65: the tree dict built from os.walk
walk_tree(files, ign) ==
    LET dir_of(f) == lstrip_slash(remove_all(walk_root(f.dir), repo_path))
        kept == {f \in files : /\ ~startswith(dir_of(f), ign)
                               /\ ~endswith(f.name, ign)}
        paths == {path_join(dir_of(f), f.name) : f \in kept}
    IN  [q \in paths |->
            LET f == CHOOSE g \in kept : path_join(dir_of(g), g.name) = q
                nospace(ch) == ch # " "
            IN  SelectSeq(f.text, nospace)]

----------------------------------------------------------------------------
(* BaseSeleniumCrawler.scroll_page *)

\* The default of BaseSeleniumCrawler.__init__(scroll_limit=...)
DefaultScrollLimit == 5

\* document.body.scrollHeight after k scrolls to the bottom of a page that
\* starts at height h0 and changes by deltas[k] at the k-th scroll, and not
\* at all once the deltas are used up
scrollHeight(h0, deltas, k) ==
    LET RECURSIVE Sum(_)
        Sum(i) == IF i = 0 THEN 0
                  ELSE (IF i <= Len(deltas) THEN deltas[i] ELSE 0) + Sum(i - 1)
    IN  h0 + Sum(k)

\* scroll_page(): the number of window.scrollTo calls it makes
scroll_page(scroll_limit, h0, deltas) ==
    LET RECURSIVE Loop(_, _, _)
        Loop(current_scroll, last_height, scrolls) ==
            LET new_height == scrollHeight(h0, deltas, scrolls + 1)
            IN  IF new_height = last_height
                   \/ (scroll_limit # 0 /\ current_scroll > scroll_limit)
                THEN scrolls + 1
                ELSE Loop(current_scroll + 1, new_height, scrolls + 1)
    IN  Loop(0, scrollHeight(h0, deltas, 0), 0)

----------------------------------------------------------------------------
(* crawl_links *)

\* CrawlerDispatcher.build().register_linkedin().register_medium().register_github()
build_dispatcher ==
    register(register(register(<<>>, HTTPS \o LINKEDIN, LinkedInCrawler),
                      HTTPS \o MEDIUM, MediumCrawler),
             HTTPS \o GITHUB, GithubCrawler)

int(b) == IF b THEN 1 ELSE 0

\* dict.get(key, default) on a dict modelled as a function
get(d, key, default) == IF key \in DOMAIN d THEN d[key] ELSE default

\* d[key] = value
set_item(d, key, value) ==
    [k \in DOMAIN d \cup {key} |-> IF k = key THEN value ELSE d[k]]

\* A tally that counts every link as successful.
add_to_metadata_always(md, domain, successfull_crawl) ==
    LET m1 == IF domain \notin DOMAIN md THEN set_item(md, domain, <<>>) ELSE md
        m2 == set_item(m1, domain, set_item(m1[domain], "successfull",
                  get(get(m1, domain, <<>>), "successfull", 0) + 1))
    IN  set_item(m2, domain, set_item(m2[domain], "total",
                  get(get(m2, domain, <<>>), "total", 0) + 1))

add_to_metadata(md, domain, successfull_crawl) ==
    LET m1 == IF domain \notin DOMAIN md THEN set_item(md, domain, <<>>) ELSE md
        m2 == set_item(m1, domain, set_item(m1[domain], "successfull",
                  get(get(m1, domain, <<>>), "successfull", 0)
                      + int(successfull_crawl)))
    IN  set_item(m2, domain, set_item(m2[domain], "total",
                  get(get(m2, domain, <<>>), "total", 0) + 1))

\* What _crawl_link returns once extract has returned or raised
crawl_link_result(link, raises) == <<~raises, netloc(link)>>

Procs == DOMAIN pc

LinkPool == {HTTPS \o BLOG \o <<"/","1">>,
             HTTPS \o BLOG \o <<"/","2">>,
             HTTPS \o MEDIUM \o Path,
             HTTPS \o GITHUB \o <<"/","r">>}
ConcPool == {HTTPS \o BLOG \o <<"/","1">>, HTTPS \o MEDIUM \o Path}
SeqsOver(S, n) == UNION {[1..k -> S] : k \in 0..n}
Contents == {"text"}
Faults == {"none", "fetch_failed", "write_error"}

\* Documents the links of the runs in progress may still insert
Pending == LET P == {w \in Procs : pc[w] \in {"loop", "extract"}}
               RECURSIVE Sum(_)
               Sum(S) == IF S = {} THEN 0
                         ELSE LET w == CHOOSE x \in S : TRUE
                              IN  (Len(links[w]) - idx[w] + 1) + Sum(S \ {w})
           IN  Sum(P)

\* crawl_links(user, links), lines 30-35: up to the first iteration
crawl_links_start(w, usr, ls) ==
    /\ pc[w] \in {"idle", "done", "aborted"}
    /\ (nextId - 1) + Pending + Len(ls) <= MaxDocs
    /\ pc' = [pc EXCEPT ![w] = "loop"]
    /\ links' = [links EXCEPT ![w] = ls]
    /\ user' = [user EXCEPT ![w] = Some(usr)]
    /\ idx' = [idx EXCEPT ![w] = 1]
    /\ crawler' = [crawler EXCEPT ![w] = None]
    /\ metadata' = [metadata EXCEPT ![w] = <<>>]
    /\ successfull_crawls' = [successfull_crawls EXCEPT ![w] = 0]
    /\ outcome' = [outcome EXCEPT ![w] = <<>>]
    /\ published' = [published EXCEPT ![w] = None]
    /\ returned' = [returned EXCEPT ![w] = None]
    /\ UNCHANGED <<dispatchVars, storeVars, auxVars>>

\* Lines 37-40 of crawl_links, once _crawl_link has returned
Tally(w, link, raises, kind) ==
    LET r == crawl_link_result(link, raises)
    IN  /\ successfull_crawls' =
               [successfull_crawls EXCEPT ![w] = @ + int(r[1])]
        /\ metadata' = [metadata EXCEPT ![w] = add_to_metadata(@, r[2], r[1])]
        /\ outcome' = [outcome EXCEPT ![w] =
               Append(@, [link |-> link, kind |-> kind, ok |-> r[1]])]
        /\ idx' = [idx EXCEPT ![w] = @ + 1]
        /\ pc' = [pc EXCEPT ![w] = "loop"]
        /\ crawler' = [crawler EXCEPT ![w] = None]

\* _crawl_link up to the store lookup of extract: get_crawler outside the
\* try block, then the existence check. A constructor that raises leaves
\* crawl_links through the for loop.
crawl_link_check(w, driverStarts) ==
    /\ pc[w] = "loop"
    /\ idx[w] <= Len(links[w])
    /\ LET link == links[w][idx[w]]
           cls == get_crawler(build_dispatcher, link)
       IN  IF ~instantiate(cls, driverStarts)
           THEN /\ pc' = [pc EXCEPT ![w] = "aborted"]
                /\ UNCHANGED <<idx, crawler, metadata, successfull_crawls, outcome>>
           ELSE LET c == extract_check(cls, database, link)
                IN  IF c.returns \/ c.raises
                    THEN Tally(w, link, c.raises,
                               IF c.raises THEN "raised" ELSE "exists")
                    ELSE /\ pc' = [pc EXCEPT ![w] = "extract"]
                         /\ crawler' = [crawler EXCEPT ![w] = Some(cls)]
                         /\ UNCHANGED <<idx, metadata, successfull_crawls, outcome>>
    /\ UNCHANGED <<links, user, published, returned, dispatchVars, storeVars,
                   auxVars>>

\* The rest of extract and of _crawl_link: fetch, save, and the tally
crawl_link_extract(w, fault, content) ==
    /\ pc[w] = "extract"
    /\ LET link == links[w][idx[w]]
           r == extract_persist(the(crawler[w]), database, link, the(user[w]),
                                nextId, fault, content)
       IN  /\ database' = r.database
           /\ nextId' = IF fault = "fetch_failed" THEN nextId ELSE nextId + 1
           /\ Tally(w, link, r.raises,
                    IF r.raises THEN "raised"
                    ELSE IF fault = "write_error" THEN "rejected" ELSE "created")
    /\ UNCHANGED <<links, user, published, returned, dispatchVars, auxVars>>

\* A crawl_links that returns the links it ingested.
crawl_links_return_ingested(ls, results) ==
    LET RECURSIVE Keep(_)
        Keep(i) == IF i > Len(ls) THEN <<>>
                   ELSE (IF i <= Len(results) /\ results[i].ok
                         THEN <<ls[i]>> ELSE <<>>) \o Keep(i + 1)
    IN  Keep(1)

\* crawl_links, line 48: return links
crawl_links_return(ls, results) == ls

\* Lines 43-48 of crawl_links: publish the metadata and return the links
crawl_links_finish(w) ==
    /\ pc[w] = "loop"
    /\ idx[w] > Len(links[w])
    /\ pc' = [pc EXCEPT ![w] = "done"]
    /\ published' = [published EXCEPT ![w] = Some(metadata[w])]
    /\ returned' = [returned EXCEPT ![w] =
                        Some(crawl_links_return(links[w], outcome[w]))]
    /\ UNCHANGED <<links, user, idx, crawler, metadata, successfull_crawls,
                   outcome, dispatchVars, storeVars, auxVars>>

\* One link as _crawl_link handles it once the strategy is constructed:
\* crawler = dispatcher.get_crawler(link); crawler.extract(link=link, user=user)
Extract(link, usr, fault, content) ==
    \E inst \in {new_crawler(get_crawler(build_dispatcher, link))} :
        /\ fault \in FaultsOf(inst.cls)
        /\ \E r \in {extract(inst, database, link, usr, nextId, fault, content,
                             cwd, tmpdirs)},
              built \in {raising(fault) # "fetch_failed"} :
               /\ (r.fetched /\ built) => nextId <= MaxDocs
               /\ database' = r.database
               /\ nextId' = IF r.fetched /\ built THEN nextId + 1 ELSE nextId
               /\ cwd' = r.cwd
               /\ tmpdirs' = r.tmpdirs
               /\ instance' = Some([inst EXCEPT !.driver = r.driver])
               /\ call' = Some([link |-> link, user |-> usr.id, cls |-> inst.cls,
                                fault |-> IF r.fetched THEN fault ELSE "none",
                                raises |-> r.raises, existed |-> r.existed,
                                fetched |-> r.fetched, workspace |-> r.workspace,
                                original_cwd |-> cwd])
        /\ UNCHANGED <<dispatchVars, runVars, userCall, fnCall>>

\* The files a clone may hold: directory relative to the repository, name, text
FilePool ==
    {[dir |-> <<>>, name |-> <<"a",".","p","y">>, text |-> <<"x"," ","y">>],
     [dir |-> <<".","g","i","t">>, name |-> <<"H">>, text |-> <<"h">>],
     [dir |-> <<"s","/",".","g","i","t">>, name |-> <<"H">>, text |-> <<"h">>],
     [dir |-> <<".","g","i","t","h","u","b">>, name |-> <<"c",".","y","m","l">>,
      text |-> <<"o","n",":"," ","p">>],
     [dir |-> <<>>, name |-> <<"p",".","l","o","c","k">>, text |-> <<"l">>],
     [dir |-> <<"s">>, name |-> <<"i",".","p","n","g">>, text |-> <<>>],
     [dir |-> <<"s">>, name |-> <<"b",".","p","y">>, text |-> <<" ","z"," ">>]}

\* The content mapping GithubCrawler.extract builds for a cloned tree; every
\* call starts from the same state, so one call per behaviour covers them all
WalkTree(files) ==
    /\ fnCall = None
    /\ fnCall' = Some([fn |-> "walk_tree", files |-> files,
                       tree |-> walk_tree(files, ignore)])
    /\ UNCHANGED <<dispatchVars, storeVars, runVars, resourceVars, userCall>>

MaxSteps == 7
ScrollLimits == {1, 2, DefaultScrollLimit}
Deltas == {-1, 0, 1}

\* scroll_page() on a page whose height changes as deltas says
ScrollPage(scroll_limit, deltas) ==
    /\ fnCall = None
    /\ fnCall' = Some([fn |-> "scroll_page", scroll_limit |-> scroll_limit,
                       h0 |-> MaxSteps + 1, deltas |-> deltas,
                       scrolls |-> scroll_page(scroll_limit, MaxSteps + 1, deltas)])
    /\ UNCHANGED <<dispatchVars, storeVars, runVars, resourceVars, userCall>>

NamePool == {None, Some(<<>>), Some(<<" ">>), Some(<<"\t">>), Some(<<" ", " ">>),
             Some(<<"a">>), Some(<<"b">>), Some(<<"a", " ", "b">>),
             Some(<<"a", " ", "b", " ", "c">>), Some(<<"a", " ", " ", "b">>),
             Some(<<" ", "a">>), Some(<<"a", " ">>), Some(<<"a", "\t", "b">>)}

\* One run of the step get_or_create_user
GetOrCreateUser(name, writeError) ==
    \E r \in {get_or_create_user(database, name, nextId, writeError)} :
        /\ r.created => nextId <= MaxDocs
        /\ database' = r.database
        /\ nextId' = IF r.created THEN nextId + 1 ELSE nextId
        /\ userCall' = Some([name |-> name, first_name |-> r.first_name,
                             last_name |-> r.last_name, error |-> r.error,
                             user |-> r.user, accessed |-> r.accessed,
                             created |-> r.created])
        /\ UNCHANGED <<dispatchVars, runVars, resourceVars, fnCall>>

----------------------------------------------------------------------------
(* Specifications *)

InitRuns(P) ==
    /\ pc = [w \in P |-> "idle"]
    /\ links = [w \in P |-> <<>>]
    /\ user = [w \in P |-> None]
    /\ idx = [w \in P |-> 1]
    /\ crawler = [w \in P |-> None]
    /\ metadata = [w \in P |-> <<>>]
    /\ successfull_crawls = [w \in P |-> 0]
    /\ outcome = [w \in P |-> <<>>]
    /\ published = [w \in P |-> None]
    /\ returned = [w \in P |-> None]

InitStore ==
    /\ database = [c \in Collections \cup {"users"} |-> {}]
    /\ nextId = 1

InitDispatcher ==
    /\ crawlers = <<>>
    /\ regLog = <<>>
    /\ resolved = None

InitAux ==
    /\ instance = None
    /\ cwd = OriginalCwd
    /\ tmpdirs = {}
    /\ call = None
    /\ userCall = None
    /\ fnCall = None

\* Ingestion runs one after another
Init == InitDispatcher /\ InitStore /\ InitRuns({1}) /\ InitAux

Next ==
    \/ \E w \in Procs, usr \in Users, ls \in SeqsOver(LinkPool, MaxLinks) :
           crawl_links_start(w, usr, ls)
    \/ \E w \in Procs, driverStarts \in BOOLEAN : crawl_link_check(w, driverStarts)
    \/ \E w \in Procs, fault \in Faults, content \in Contents :
           crawl_link_extract(w, fault, content)
    \/ \E w \in Procs : crawl_links_finish(w)

Spec == Init /\ [][Next]_vars

\* Two ingestion runs at once, interleaved at the store's operations
InitConc == InitDispatcher /\ InitStore /\ InitRuns({1, 2}) /\ InitAux

\* crawl_links entered by a run that has not run before
crawl_links_once(w, usr, ls) == pc[w] = "idle" /\ crawl_links_start(w, usr, ls)

NextConc ==
    \/ \E w \in Procs, usr \in Users, ls \in SeqsOver(ConcPool, MaxLinks) :
           crawl_links_once(w, usr, ls)
    \/ \E w \in Procs, driverStarts \in BOOLEAN : crawl_link_check(w, driverStarts)
    \/ \E w \in Procs, fault \in Faults, content \in Contents :
           crawl_link_extract(w, fault, content)
    \/ \E w \in Procs : crawl_links_finish(w)

SpecConc == InitConc /\ [][NextConc]_vars

\* The dispatcher alone
NextDispatch ==
    \/ \E domain \in RegDomains, cls \in RegClasses : Register(domain, cls)
    \/ \E url \in UrlPool, driverStarts \in BOOLEAN : GetCrawler(url, driverStarts)

SpecDispatch == Init /\ [][NextDispatch]_vars

\* Extract calls one after another, each on a freshly built strategy
ExtractFaults == UNION {FaultsOf(cls) : cls \in RegClasses \cup {CustomArticleCrawler}}

NextExtract ==
    \E link \in LinkPool, usr \in Users, fault \in ExtractFaults,
       content \in Contents : Extract(link, usr, fault, content)

SpecExtract == Init /\ [][NextExtract]_vars

\* The step get_or_create_user, run again and again
NextUsers ==
    \E name \in NamePool, writeError \in BOOLEAN : GetOrCreateUser(name, writeError)

SpecUsers == Init /\ [][NextUsers]_vars

\* The helpers of the strategies, each applied to every input of its pool
NextHelpers ==
    \/ \E files \in SUBSET FilePool : WalkTree(files)
    \/ \E scroll_limit \in ScrollLimits, deltas \in SeqsOver(Deltas, MaxSteps) :
           ScrollPage(scroll_limit, deltas)

SpecHelpers == Init /\ [][NextHelpers]_vars

----------------------------------------------------------------------------
(* Claims about the dispatcher, checked under SpecDispatch *)

\* The registered domains whose binding matches url
Matching(url) == {d \in RegisteredDomains : re_match(pattern(d), url)}

\* Among a non-empty set of registered domains, the one registered first
Earliest(D) == CHOOSE d \in D : \A e \in D : FirstCall(d) <= FirstCall(e)

\* C8: for every URL, get_crawler returns the strategy bound to the URL's
\* host when that host, with or without a leading "www.", is a registered
\* domain, and the CustomArticleCrawler fallback when it is not registered.
C8_RoutesByHost ==
    resolved # None =>
        LET r == the(resolved)
            h == netloc(r.url)
            d == IF h \in RegisteredDomains THEN h ELSE strip_www(h)
        IN  r.raised \/
            r.crawler = IF d \in RegisteredDomains THEN LastFor(d)
                        ELSE CustomArticleCrawler

\* C9: a URL whose host is not a registered domain (with or without "www.")
\* but only starts with one is never resolved to that domain's strategy: it
\* gets the CustomArticleCrawler fallback.
C9_ExactHostOnly ==
    resolved # None =>
        LET r == the(resolved)
            h == netloc(r.url)
        IN  (h \notin RegisteredDomains /\ strip_www(h) \notin RegisteredDomains)
                => r.crawler = CustomArticleCrawler

\* One binding per registered domain, holding the class registered last
SingleBinding ==
    /\ Len(crawlers) = Cardinality(RegisteredDomains)
    /\ \A d \in RegisteredDomains :
           \E i \in 1..Len(crawlers) :
               /\ crawlers[i].pattern = pattern(d)
               /\ crawlers[i].crawler = LastFor(d)

----------------------------------------------------------------------------
(* Claims about ingestion runs, checked under Spec and SpecConc *)

\* No collection holds two documents with the same link
UniqueLinks ==
    \A c \in Collections :
        \A d1, d2 \in database[c] : d1.link = d2.link => d1 = d2

\* The collection extract looks the link up in, and whether it is there
Stored(link) ==
    find(database, model(get_crawler(build_dispatcher, link)), link) # None

\* The link run w is working on
Current(w) == links[w][idx[w]]
Working(w) == pc[w] \in {"loop", "extract"} /\ idx[w] <= Len(links[w])

\* C1: over runs executed one after another, every collection holds at most
\* one document per link, and a step of extract on a link that is already
\* stored in the strategy's collection leaves the store as it was.
C1_OneDocumentPerLink ==
    /\ []UniqueLinks
    /\ [][\A w \in Procs :
              (Working(w) /\ Stored(Current(w))) => database' = database]_vars

\* C1 witness: a link was extracted while stored (the early return was
\* taken) and its collection holds exactly one document for it.
C1_Witness ==
    \E w \in Procs : \E k \in 1..Len(outcome[w]) :
        /\ outcome[w][k].kind = "exists"
        /\ Stored(outcome[w][k].link)
        /\ \E c \in Collections :
               Cardinality({d \in database[c] : d.link = outcome[w][k].link}) = 1

\* C2: if extract raised for some link of the batch, the run is not stopped:
\* extract is still called for the later links and the run finishes with all
\* N links tallied, the raising link as a failure.
C2_RaiseNeverStopsRun ==
    \A w \in Procs :
        (\E k \in 1..Len(outcome[w]) : outcome[w][k].kind = "raised") =>
            /\ pc[w] # "aborted"
            /\ pc[w] = "done" =>
                   /\ Len(outcome[w]) = Len(links[w])
                   /\ \A k \in 1..Len(outcome[w]) :
                          outcome[w][k].kind = "raised" => ~outcome[w][k].ok

\* C3: when the strategy's constructor raises for link k (run w is then at
\* link k, outside extract), link k is tallied as a failure under its host
\* and the run goes on.
C3_ConstructorFailureTallied ==
    \A w \in Procs :
        pc[w] = "aborted" =>
            /\ Len(outcome[w]) >= idx[w]
            /\ ~outcome[w][idx[w]].ok
            /\ netloc(Current(w)) \in DOMAIN metadata[w]

\* Positions of the batch of run w whose link is on host h
OnHost(w, h) == {k \in 1..Len(links[w]) : netloc(links[w][k]) = h}

\* C4: when a run has returned, the published metadata has exactly one entry
\* per distinct host of the batch; its total is the number of links of the
\* batch on that host, its successful count the number of those links whose
\* outcome was successful.
C4_MetadataPerHost ==
    \A w \in Procs :
        pc[w] = "done" =>
            /\ published[w] # None
            /\ Len(outcome[w]) = Len(links[w])
            /\ \A k \in 1..Len(links[w]) : outcome[w][k].link = links[w][k]
            /\ LET md == the(published[w])
               IN  /\ DOMAIN md = {netloc(links[w][k]) : k \in 1..Len(links[w])}
                   /\ \A h \in DOMAIN md :
                          /\ DOMAIN md[h] = {"successfull", "total"}
                          /\ md[h]["total"] = Cardinality(OnHost(w, h))
                          /\ md[h]["successfull"] =
                                 Cardinality({k \in OnHost(w, h) : outcome[w][k].ok})

\* C4 witness: a finished run whose batch has two links on one host, one
\* successful and one failed.
C4_Witness ==
    \E w \in Procs :
        /\ pc[w] = "done"
        /\ \E h \in DOMAIN the(published[w]) :
               /\ the(published[w])[h]["total"] = 2
               /\ the(published[w])[h]["successfull"] = 1

\* C5: a link whose insert the store rejected with a write error is recorded
\* as a failure: it adds 0 to its host's successful count.
C5_WriteErrorIsFailure ==
    \A w \in Procs : \A k \in 1..Len(outcome[w]) :
        outcome[w][k].kind = "rejected" => ~outcome[w][k].ok

\* The counter of host h in a metadata dict, 0 when the host has no entry
Count(md, h, key) == get(get(md, h, <<>>), key, 0)

\* C6: when extract finds the link's document in the store and returns, the
\* link is counted as successful: 1 is added to both counters of its host
\* (and to the run's success counter).
C6_ExistingCountsAsSuccess ==
    [][\A w \in Procs :
          (/\ pc[w] = "loop"
           /\ idx[w] <= Len(links[w])
           /\ Stored(Current(w))
           /\ idx'[w] = idx[w] + 1)
          => LET h == netloc(Current(w))
             IN  /\ Count(metadata'[w], h, "successfull")
                        = Count(metadata[w], h, "successfull") + 1
                 /\ Count(metadata'[w], h, "total")
                        = Count(metadata[w], h, "total") + 1
                 /\ successfull_crawls'[w] = successfull_crawls[w] + 1]_vars

\* C6 witness: a link found in the store has been tallied, as a success.
C6_Witness ==
    \E w \in Procs : \E k \in 1..Len(outcome[w]) :
        /\ outcome[w][k].kind = "exists"
        /\ outcome[w][k].ok
        /\ Count(metadata[w], netloc(outcome[w][k].link), "successfull") >= 1

\* C7: two ingestions of the same link at once never leave two documents for
\* that link in the collection.
C7_NoDuplicateUnderRace ==
    \A c \in Collections : \A link \in ConcPool :
        Cardinality({d \in database[c] : d.link = link}) <= 1

----------------------------------------------------------------------------
(* Claims about one extract call, checked under SpecExtract *)

\* C11: every GithubCrawler.extract that created its scratch workspace has
\* removed it when it returns or raises, and the working directory of the
\* process is again what it was before the call: after a successful persist,
\* a failed clone, a failed file read and a failed persist alike.
C11_WorkspaceRemovedCwdRestored ==
    \A c \in call :
        c.workspace # None =>
            /\ the(c.workspace) \notin tmpdirs
            /\ cwd = c.original_cwd

C11_Witness ==
    \E c \in call :
        /\ c.cls = GithubCrawler
        /\ c.workspace # None
        /\ c.fault = "read_failed"
        /\ c.raises

\* C12: the browser session of a dynamic-page strategy instance is closed
\* when its extract is over, whichever way it ended: document persisted,
\* link already stored, or a failure while loading, scrolling or parsing.
C12_SessionClosedOnEveryExit ==
    \A i \in instance : i.cls \in SeleniumCrawlers => i.driver = "closed"

\* C13: an extract that fails while fetching, normalising or cloning leaves
\* the document store exactly as it was before the call.
C13_FailedExtractWritesNothing ==
    [][\A c \in call' : (c.raises /\ c.fault \in BeforeSave)
                            => database' = database]_vars

C13_Witness ==
    \E c \in call :
        /\ c.raises
        /\ c.fault = "parse_failed"
        /\ \E coll \in Collections : database[coll] # {}

\* C14: an extract of a link that is already stored changes no stored
\* document, also when it is made for another user than the one the document
\* was stored for, and starts no fetch, clone or page load.
C14_ReingestIsNoOp ==
    [][\A c \in call' : Stored(c.link) => /\ database' = database
                                          /\ ~c.fetched]_vars

C14_Witness ==
    \E c \in call :
        /\ c.existed
        /\ \E coll \in Collections : \E doc \in database[coll] :
               doc.link = c.link /\ doc.author_id # c.user

----------------------------------------------------------------------------
(* Claims about what crawl_links returns, checked under Spec *)

\* C15: a run that returns hands back the sequence of links it was given:
\* the same links in the same order and of the same length, whether the
\* links were created, already stored or failed.
C15_ReturnsLinksUnchanged ==
    \A w \in Procs :
        pc[w] = "done" =>
            /\ returned[w] # None
            /\ Len(the(returned[w])) = Len(links[w])
            /\ \A i \in 1..Len(links[w]) : the(returned[w])[i] = links[w][i]

C15_Witness ==
    \E w \in Procs :
        /\ pc[w] = "done"
        /\ Len(outcome[w]) = 2
        /\ outcome[w][1].kind = "raised"
        /\ outcome[w][2].kind \in {"created", "exists"}
        /\ returned[w] = Some(links[w])

----------------------------------------------------------------------------
(* Claims about user resolution, checked under SpecUsers *)

Blank(name) == name = None \/ \A i \in 1..Len(the(name)) : the(name)[i] \in Whitespace

\* The whitespace-separated tokens of a string
words(s) == LET word(t) == t # <<>> IN SelectSeq(split_on(s, Whitespace), word)

\* C16: split_user_full_name splits on whitespace. One token t gives (t, t);
\* two or more give (all but the last joined by single spaces, the last); so
\* neither name is empty or starts or ends with whitespace, also when the
\* input has repeated, leading or trailing spaces.
C16_SplitsOnWhitespace ==
    \A c \in userCall :
        c.error # "ImproperlyConfigured" =>
            LET t == words(the(c.name))
            IN  /\ c.first_name = IF Len(t) = 1 THEN t[1]
                                  ELSE join(<<" ">>, SubSeq(t, 1, Len(t) - 1))
                /\ c.last_name = t[Len(t)]
                /\ c.first_name # <<>> /\ c.last_name # <<>>
                /\ strip(c.first_name) = c.first_name
                /\ strip(c.last_name) = c.last_name

\* C17: get_or_create_user with a None, empty or whitespace-only name raises
\* the invalid-name error before the store is touched: no lookup, no new
\* user, and the users collection is what it was.
C17_BlankNameRaisesBeforeStore ==
    [][\A c \in userCall' : Blank(c.name) =>
           /\ c.error = "ImproperlyConfigured"
           /\ ~c.accessed
           /\ c.user = None
           /\ database' = database]_vars

C17_Witness ==
    \E c \in userCall :
        /\ c.name = Some(<<" ", " ">>)
        /\ c.error = "ImproperlyConfigured"
        /\ database["users"] # {}

OneRecordPerName ==
    \A d1, d2 \in database["users"] :
        (d1.first_name = d2.first_name /\ d1.last_name = d2.last_name) => d1 = d2

\* C18: get_or_create calls made one after another are idempotent: a call
\* returns the user whose record is stored under its (first_name,
\* last_name), records are never replaced, so calls with the same full name
\* return the same id, and the collection holds one record per name pair.
C18_UserResolutionIdempotent ==
    /\ [](OneRecordPerName /\
          \A c \in userCall : \A u \in c.user :
              \E d \in database["users"] :
                  /\ d.first_name = c.first_name
                  /\ d.last_name = c.last_name
                  /\ d._id = uuid_str(u.id))
    /\ [][database["users"] \subseteq database'["users"]]_vars

C18_Witness ==
    \E c \in userCall :
        /\ c.user # None
        /\ ~c.created
        /\ Cardinality(database["users"]) >= 2

----------------------------------------------------------------------------
(* Claims about the helpers of the strategies, checked under SpecHelpers *)

\* A file under a directory named .git, at whatever depth
InGitDir(f) ==
    \E k \in 1..Len(split_on(f.dir, {"/"})) :
        split_on(f.dir, {"/"})[k] = <<".","g","i","t">>

\* C19: the content mapping of a cloned tree has no file from a .git
\* directory at any depth and no file whose name matches an ignored pattern;
\* every other file is in it once, under its path relative to the
\* repository root, with the spaces removed from its text.
C19_ContentMappingFiltersTree ==
    \A c \in fnCall :
        c.fn = "walk_tree" =>
            LET expected == {f \in c.files : ~InGitDir(f) /\ ~endswith(f.name, ignore)}
                nospace(ch) == ch # " "
            IN  /\ DOMAIN c.tree = {path_join(f.dir, f.name) : f \in expected}
                /\ \A f \in expected :
                       c.tree[path_join(f.dir, f.name)] = SelectSeq(f.text, nospace)

\* C20: for every scroll_limit >= 1 and every sequence of page heights,
\* scroll_page makes at most scroll_limit scrolls to the bottom, and stops
\* at the first scroll after which the height has not grown.
C20_ScrollsAtMostLimit ==
    \A c \in fnCall :
        c.fn = "scroll_page" =>
            /\ c.scrolls <= c.scroll_limit
            /\ \A k \in 1..(c.scrolls - 1) :
                   scrollHeight(c.h0, c.deltas, k) > scrollHeight(c.h0, c.deltas, k - 1)

----------------------------------------------------------------------------
(* Claims about the counters of a run, checked under Spec *)

\* The sum over all hosts of one counter of a metadata dict
Total(md, key) ==
    LET RECURSIVE Sum(_)
        Sum(H) == IF H = {} THEN 0
                  ELSE LET h == CHOOSE x \in H : TRUE
                       IN  Count(md, h, key) + Sum(H \ {h})
    IN  Sum(DOMAIN md)

\* C21: at every point of a run, with k links processed so far, every host
\* of the metadata has 0 <= successfull <= total, the totals of all hosts
\* add up to k, and the successfull counts of all hosts add up to the run's
\* success counter.
C21_CountersConsistent ==
    \A w \in Procs :
        LET k == idx[w] - 1
        IN  /\ k = Len(outcome[w])
            /\ \A h \in DOMAIN metadata[w] :
                   /\ 0 <= Count(metadata[w], h, "successfull")
                   /\ Count(metadata[w], h, "successfull")
                          <= Count(metadata[w], h, "total")
            /\ Total(metadata[w], "total") = k
            /\ Total(metadata[w], "successfull") = successfull_crawls[w]

\* C21 witness: a run inside its loop with two links processed, on two
\* hosts, one of them a success and the other a failure.
C21_Witness ==
    \E w \in Procs :
        /\ pc[w] = "loop"
        /\ idx[w] = 3
        /\ Cardinality(DOMAIN metadata[w]) = 2
        /\ successfull_crawls[w] = 1

----------------------------------------------------------------------------
(* A claim about the scheme of a URL, checked under SpecDispatch *)

\* The scheme of a URL: what precedes "://"
scheme(url) ==
    LET i == FindAny(url, {":"}, 1)
    IN  IF i > 1 /\ StartsWith(SubSeq(url, i + 1, Len(url)), <<"/","/">>)
        THEN SubSeq(url, 1, i - 1) ELSE <<>>

\* C22: a URL whose scheme is not https is never resolved to a registered
\* strategy: get_crawler gives the CustomArticleCrawler fallback for it,
\* also when its host is a registered domain.
C22_NonHttpsFallsBack ==
    \A r \in resolved :
        scheme(r.url) # <<"h","t","t","p","s">> => r.crawler = CustomArticleCrawler

\* C22 witness: an http URL on a registered domain resolved to the fallback
C22_Witness ==
    \E r \in resolved :
        /\ scheme(r.url) = <<"h","t","t","p">>
        /\ netloc(r.url) \in RegisteredDomains
        /\ r.crawler = CustomArticleCrawler
====
